---- MODULE Spec2Model ----
(***************************************************************************)
(* Model of the panorama acquisition pipeline of the toolbelt repository:  *)
(* the two provider scripts scripts/get_lookaround.py (cube faces) and     *)
(* scripts/get_streetview.py (whole panoramas).  A script is a top-level   *)
(* sequence of statements; pc is the position of the run in it.  The web   *)
(* endpoints of app.py validate a request, spawn a script and relay its    *)
(* output as events.  scripts/to_perspective.py cuts a saved panorama into *)
(* perspective views; scripts/grab_panorama.py downloads the tiles of one  *)
(* panorama and stitches them.                                             *)
(*                                                                         *)
(* Coordinates are integers (grid units).  The strings of the argument     *)
(* vector are sequences of characters, parsed by IsNumber / IntValue.      *)
(***************************************************************************)
EXTENDS Integers, Sequences, FiniteSets, TLC

----------------------------------------------------------------------------
(* Program constants *)

MinPanos == 1
MaxPanos == 500
DefaultZoom == 2
NumFaces == 6
PanosPerTile == 4

(* Bounds of the model *)

\* largest valid panorama count requested in a whole-pipeline run
MaxNumPanos == 2
\* longest merged record list given to the selector in SpecSelect
MaxRecords == 3
\* number of distinct panorama ids in SpecSelect
MaxPanoId == 4
\* how far beyond the accepted range the counts of SpecEndpoint go
CountMargin == 2
\* how many samples of one to_perspective.py run may fail
MaxSampleFailures == 2
\* largest panorama count requested from an endpoint in SpecRelay
MaxRelayPanos == 2
\* largest zoom level given to get_all_tiles
MaxGridZoom == 2
\* how many tile requests of one get_all_tiles call may bring no image
MaxBadTiles == 2

----------------------------------------------------------------------------
(* Strings and numbers *)

\* A string that is parsed or formatted is a sequence of characters.
DigitChars == <<"0", "1", "2", "3", "4", "5", "6", "7", "8", "9">>

IsDigit(c) == \E i \in 1..Len(DigitChars) : DigitChars[i] = c

DigitValue(c) == (CHOOSE i \in 1..Len(DigitChars) : DigitChars[i] = c) - 1

\* the strings int() accepts: an optional minus sign and decimal digits
IsNumber(s) ==
    /\ Len(s) >= 1
    /\ LET body == IF s[1] = "-" THEN Tail(s) ELSE s
       IN  /\ Len(body) >= 1
           /\ \A i \in 1..Len(body) : IsDigit(body[i])

RECURSIVE DigitsValue(_)
DigitsValue(s) ==
    IF s = <<>> THEN 0
    ELSE 10 * DigitsValue(SubSeq(s, 1, Len(s) - 1)) + DigitValue(s[Len(s)])

\* int(s)
IntValue(s) == IF s[1] = "-" THEN 0 - DigitsValue(Tail(s)) ELSE DigitsValue(s)

\* the strings float() is given here: what int() accepts, optionally followed
\* by a point and digits
IsFloat(s) ==
    \/ IsNumber(s)
    \/ \E k \in 2..(Len(s) - 1) :
          /\ s[k] = "."
          /\ IsNumber(SubSeq(s, 1, k - 1))
          /\ \A i \in (k + 1)..Len(s) : IsDigit(s[i])

\* float(s): coordinates are whole grid units, the digits behind the point
\* are zeros
FloatValue(s) ==
    IF \E k \in 1..Len(s) : s[k] = "."
    THEN IntValue(SubSeq(s, 1, (CHOOSE k \in 1..Len(s) : s[k] = ".") - 1))
    ELSE IntValue(s)

RECURSIVE StrOfNat(_)
StrOfNat(n) ==
    IF n < 10 THEN <<DigitChars[n + 1]>>
    ELSE StrOfNat(n \div 10) \o <<DigitChars[(n % 10) + 1]>>

\* str(n), and an integer inside an f-string
StrOfInt(n) == IF n < 0 THEN <<"-">> \o StrOfNat(0 - n) ELSE StrOfNat(n)

\* str(x) of a float with a whole value
StrOfFloat(n) == StrOfInt(n) \o <<".", "0">>

Min(a, b) == IF a <= b THEN a ELSE b
Max(a, b) == IF a >= b THEN a ELSE b

\* floor of the square root: math.sqrt rounded to the number grid of the model
RECURSIVE ISqrtFrom(_, _)
ISqrtFrom(n, r) == IF (r + 1) * (r + 1) > n THEN r ELSE ISqrtFrom(n, r + 1)
ISqrt(n) == ISqrtFrom(n, 0)

----------------------------------------------------------------------------
(* Panorama records and the provider's world *)

\* latitude and longitude of the panorama with a given id
PanoCoord == <<[lat |-> 1, lon |-> 0], [lat |-> 0, lon |-> 1],
               [lat |-> 2, lon |-> 2], [lat |-> 0, lon |-> -3],
               [lat |-> -1, lon |-> 0]>>

\* a record object: inst is the identity of the Python object
Pano(id, inst) ==
    [id |-> id, lat |-> PanoCoord[id].lat, lon |-> PanoCoord[id].lon, inst |-> inst]

\* the coverage tile of the target coordinate
CenterTile == <<5, 7>>
NeighbourTile == <<6, 7>>
CornerTile == <<4, 6>>

\* what the provider holds in the center tile and in its right neighbour;
\* every other tile of the grid is empty
CenterContents ==
    { <<>>,
      <<Pano(1, 1)>>,
      <<Pano(1, 1), Pano(2, 2)>>,
      <<Pano(3, 1), Pano(2, 2), Pano(1, 3)>> }

NeighbourContents ==
    { <<>>,
      <<Pano(1, 11)>>,
      <<Pano(2, 11), Pano(4, 12)>> }

Worlds ==
    { (CenterTile :> a) @@ (NeighbourTile :> b) :
          a \in CenterContents, b \in NeighbourContents }

\* tiles whose fetch may raise
FlakyTiles == {CenterTile, NeighbourTile, CornerTile}

Providers == {"lookaround", "streetview"}

----------------------------------------------------------------------------
VARIABLES
    provider,               \* which script runs
    argv,                   \* sys.argv, argv[1] is the script name
    coverage,               \* the provider's world: tile -> records
    pc,                     \* position of the run in the script
    exit_code,              \* process exit status, meaningful when pc = "done"
    exit_at,                \* the statement that ended the run
    target_lat, target_lon, out_dir, num_panos, zoom,
    initial_tile,
    search_radius, tile_coords_to_check,
    tiles_todo,             \* tiles the for loop has not visited yet
    tile_fetches,           \* tile -> number of get_coverage_tile calls
    tiles_failed,           \* tiles whose fetch raised
    all_panos, selected_panos,
    pano_idx,               \* number of panoramas the loop has finished
    faces, face_download_success, face_idx,
    successful_downloads, failed_downloads,
    files,                  \* files written, in order
    outcomes,               \* what happened to each panorama, in order
    last_fetch,             \* the latest get_panorama_face call
    stdout, stderr,         \* the lines the script has written, in order
    endpoint,               \* the app.py endpoint serving the run, or "none"
    request,                \* the query parameters of the request
    web_pc,                 \* position of the endpoint in its handler
    read_stdout, read_stderr,   \* lines the reader threads have taken
    q_stdout, q_stderr,     \* the queues between reader threads and relay
    saved_filenames,
    events,                 \* the events yielded to the client
    tp_argv,                \* sys.argv of to_perspective.py
    pano_file,              \* what the file system holds at the image path
    tp_pc, tp_exit,         \* its position and exit status
    file_name, tp_out_dir,
    tasks, task_idx, success_count,
    attempts,               \* the generate_and_save calls made, in order
    tp_files,               \* the perspective files written, in order
    grid_pc,                \* position of grab_panorama.py
    grid_zoom, x_tiles, y_tiles,
    cell,                   \* <<x, y>> of the download loops
    requests_made,          \* cell -> number of requests.get calls
    tile_files,             \* cell -> content of its tile file
    tile_count,
    stitched,               \* what stitch_tiles produced
    st_pc,                  \* position of the Streamlit page in its download
    service, st_num_panos, zoom_level,   \* the settings of the page
    result,                 \* what run_script_realtime returned
    grouped_views           \* the perspective files the viewer has parsed

argVars == <<provider, argv, coverage>>
parsedVars == <<target_lat, target_lon, out_dir, num_panos, zoom>>
tileVars == <<search_radius, tile_coords_to_check, tiles_todo, tile_fetches,
              tiles_failed>>
loopVars == <<pano_idx, faces, face_download_success, face_idx,
              successful_downloads, failed_downloads, files, outcomes,
              last_fetch>>

outVars == <<stdout, stderr>>
webVars == <<endpoint, request, web_pc, read_stdout, read_stderr, q_stdout,
             q_stderr, saved_filenames, events>>

perspVars == <<tp_argv, pano_file, tp_pc, tp_exit, file_name, tp_out_dir, tasks,
               task_idx, success_count, attempts, tp_files>>
mosaicVars == <<grid_pc, grid_zoom, x_tiles, y_tiles, cell, requests_made,
                tile_files, tile_count, stitched>>
pageVars == <<st_pc, service, st_num_panos, zoom_level, result,
              grouped_views>>

\* the two tools and the Streamlit page
toolVars == <<perspVars, mosaicVars, pageVars>>

\* what a provider script never touches
outsideScript == <<webVars, toolVars>>

\* what the endpoint never touches once the script is spawned
scriptVars == <<coverage, exit_code, exit_at, parsedVars,
                initial_tile, tileVars, all_panos, selected_panos, loopVars,
                outVars>>

vars == <<provider, argv, coverage, pc, exit_code, exit_at,
          target_lat, target_lon, out_dir, num_panos, zoom, initial_tile,
          search_radius, tile_coords_to_check, tiles_todo, tile_fetches,
          tiles_failed, all_panos, selected_panos, pano_idx, faces,
          face_download_success, face_idx, successful_downloads,
          failed_downloads, files, outcomes, last_fetch, stdout, stderr,
          endpoint, request, web_pc, read_stdout, read_stderr, q_stdout,
          q_stderr, saved_filenames, events, tp_argv, pano_file, tp_pc,
          tp_exit,
          file_name, tp_out_dir, tasks, task_idx, success_count, attempts,
          tp_files, grid_pc, grid_zoom, x_tiles, y_tiles, cell, requests_made,
          tile_files, tile_count, stitched, st_pc, service, st_num_panos,
          zoom_level, result, grouped_views>>

----------------------------------------------------------------------------
(* Argument vectors *)

\* sys.argv[i], zero based as in Python
SysArgv(av, i) == av[i + 1]

\* requested counts of a whole-pipeline run: the valid ones up to the bound,
\* and the two just outside the accepted range
CountTokens == {StrOfInt(n) : n \in 0..MaxNumPanos} \cup {StrOfInt(MaxPanos + 1)}

\* an output directory
OutToken == <<"o", "u", "t">>

\* the output directory get_lookaround.py builds from its own location
DataOutput == <<"d", "a", "t", "a", "/", "o", "u", "t", "p", "u", "t">>

\* <script> <lat> <lon> <out_dir> <num_panos> <zoom>
FullArgs(script) ==
    { <<script, StrOfInt(0), StrOfInt(0), OutToken, n, StrOfInt(2)>> :
          n \in CountTokens }

\* <script> <lat> <lon> <num_panos>, as the web endpoints spawn it
WebArgs(script) ==
    { <<script, StrOfInt(0), StrOfInt(0), n>> : n \in CountTokens }

ScriptOf(p) == IF p = "lookaround" THEN "get_lookaround.py" ELSE "get_streetview.py"

\* the layouts above, a lone latitude, and the two coordinates without the
\* count the usage line calls optional
ArgVectors(p) ==
    FullArgs(ScriptOf(p)) \cup WebArgs(ScriptOf(p))
        \cup {<<ScriptOf(p), StrOfInt(0)>>,
              <<ScriptOf(p), StrOfInt(0), StrOfInt(0)>>}

NoTile == [found |-> FALSE, x |-> 0, y |-> 0]

FoundTile == [found |-> TRUE, x |-> CenterTile[1], y |-> CenterTile[2]]

NoFetch == [pano |-> 0, face |-> 0, ok |-> TRUE]

\* nothing parsed, no tile looked up, no panorama processed yet
NothingParsed ==
    /\ target_lat = 0 /\ target_lon = 0 /\ out_dir = <<>> /\ num_panos = 0
    /\ zoom = 0

NoWindow ==
    /\ search_radius = 0
    /\ tile_coords_to_check = {}
    /\ tiles_todo = {}
    /\ tile_fetches = <<>>
    /\ tiles_failed = {}

LoopNotStarted ==
    /\ pano_idx = 0
    /\ faces = <<>>
    /\ face_download_success = TRUE
    /\ face_idx = 0
    /\ successful_downloads = 0
    /\ failed_downloads = 0
    /\ files = <<>>
    /\ outcomes = <<>>
    /\ last_fetch = NoFetch

NoOutput == stdout = <<>> /\ stderr = <<>>

\* a request: given is the set of query parameters it carries
NoRequest ==
    [given |-> {}, lat |-> <<>>, lon |-> <<>>, num_panos |-> <<>>, zoom |-> <<>>]

NoEvents == [stdout |-> <<>>, stderr |-> <<>>, own |-> <<>>]

\* no thread has read a line, nothing is queued, nothing was yielded
RelayNotStarted ==
    /\ read_stdout = 0 /\ read_stderr = 0
    /\ q_stdout = <<>> /\ q_stderr = <<>>
    /\ saved_filenames = <<>>
    /\ events = NoEvents

\* the script was started from a command line: no endpoint is involved
Standalone ==
    /\ endpoint = "none"
    /\ request = NoRequest
    /\ web_pc = "idle"
    /\ RelayNotStarted

\* to_perspective.py is not running
NoConversion ==
    /\ tp_argv = <<>> /\ pano_file = "missing"
    /\ tp_pc = "idle" /\ tp_exit = 0
    /\ file_name = <<>> /\ tp_out_dir = <<>>
    /\ tasks = <<>> /\ task_idx = 0 /\ success_count = 0
    /\ attempts = <<>> /\ tp_files = <<>>

NoImage == [made |-> FALSE, size |-> <<0, 0>>, pasted |-> {}]

WholeNumber(n) == [num |-> n, den |-> 1]

\* grab_panorama.py is not running
NoMosaic ==
    /\ grid_pc = "idle" /\ grid_zoom = 0
    /\ x_tiles = WholeNumber(0) /\ y_tiles = WholeNumber(0)
    /\ cell = <<0, 0>>
    /\ requests_made = <<>> /\ tile_files = <<>>
    /\ tile_count = 0
    /\ stitched = NoImage

NoResult == [success |-> FALSE, returncode |-> 0]

\* the Streamlit page is not open
NoPage ==
    /\ st_pc = "idle" /\ service = "" /\ st_num_panos = 0 /\ zoom_level = 0
    /\ result = NoResult
    /\ grouped_views = {}

ToolsIdle == NoConversion /\ NoMosaic /\ NoPage

\* a process that has executed nothing
Blank ==
    /\ exit_code = 0
    /\ exit_at = "none"
    /\ NothingParsed
    /\ initial_tile = NoTile
    /\ NoWindow
    /\ all_panos = <<>>
    /\ selected_panos = <<>>
    /\ LoopNotStarted
    /\ NoOutput

\* the state of a script before its first statement
Fresh == pc = "parse" /\ Blank

Init ==
    /\ provider \in Providers
    /\ argv \in ArgVectors(provider)
    /\ coverage \in Worlds
    /\ Fresh
    /\ Standalone
    /\ ToolsIdle

----------------------------------------------------------------------------
(* Argument parsing and validation *)

\* A line of output is a sequence of tokens ending in a newline: the fixed
\* wording of a message is one token, what is formatted into it (a path, a
\* number) is spelled in characters.  The variable parts of error messages
\* are left out.
Line(tokens) == tokens \o <<"\n">>

\* print(..., file=f): stdout and stderr after printing the lines out and err
Printed(out, err) ==
    /\ stdout' = stdout \o out
    /\ stderr' = stderr \o err

\* the interpreter's report of an exception nothing caught
Traceback == Line(<<"Traceback (most recent call last):">>)

\* what a run prints when argument parsing or validation ends it
ParseMessage(outcome) ==
    IF outcome = "usage" THEN Line(<<"Usage:">>)
    ELSE IF outcome = "value_error"
    THEN Line(<<"Error: Latitude and longitude must be valid numbers">>)
    ELSE Line(<<"Error: Number of panoramas must be between 1 and 50.">>)

\* os.path.join(out_dir, name)
PathJoin(dir, name) == dir \o <<"/">> \o name

\* print(f"Saved equirectangular panorama: {output_filename}")
LookaroundSavedLine(path) ==
    Line(<<"Saved equirectangular panorama:", " ">> \o path)

\* print(f"Saved streetview panorama: {out_file}")
StreetviewSavedLine(path) ==
    Line(<<"Saved streetview panorama:", " ">> \o path)

\* print(f"Successfully got pano: {result.id}")
GotPanoLine(id) == Line(<<"Successfully got pano:", " ">> \o StrOfInt(id))

\* print(f"Successfully processed: {successful_downloads} panorama(s)")
ProcessedLine(n) ==
    Line(<<"Successfully processed:", " ">> \o StrOfInt(n)
             \o <<" ", "panorama(s)">>)

\* the last line of a run that reached the summary, on stderr
SummaryWarning(succeeded, failed) ==
    IF succeeded = 0 THEN <<Line(<<"No panoramas were successfully processed.">>)>>
    ELSE IF failed > 0 THEN <<Line(<<"Warning:", " ">> \o StrOfInt(failed)
                                   \o <<" ", "panorama(s) failed to process.">>)>>
    ELSE <<>>

\* sys.exit(code) at the statement named where
Exit(code, where) ==
    /\ pc' = "done"
    /\ exit_code' = code
    /\ exit_at' = where

\* get_lookaround.py, lines 12-28.  The result names the first statement that
\* ends the run, or "ok" with the parsed values.
ParseLookaround(av) ==
    LET n == Len(av)
        bad(kind) == [outcome |-> kind, lat |-> 0, lon |-> 0, out |-> <<>>,
                      num |-> 0, zoom |-> 0]
    IN  IF n < 3 THEN bad("usage")
        ELSE IF ~IsFloat(SysArgv(av, 1)) THEN bad("value_error")
        ELSE IF ~IsFloat(SysArgv(av, 2)) THEN bad("value_error")
        ELSE IF n < 4 THEN bad("index_error")
        ELSE IF ~IsNumber(SysArgv(av, 3)) THEN bad("value_error")
        ELSE IF n > 4 /\ ~IsNumber(SysArgv(av, 4)) THEN bad("value_error")
        ELSE [outcome |-> "ok",
              lat |-> FloatValue(SysArgv(av, 1)),
              lon |-> FloatValue(SysArgv(av, 2)),
              out |-> DataOutput,
              num |-> IntValue(SysArgv(av, 3)),
              zoom |-> IF n > 4 THEN IntValue(SysArgv(av, 4)) ELSE DefaultZoom]

\* get_streetview.py, lines 12-29
ParseStreetview(av) ==
    LET n == Len(av)
        bad(kind) == [outcome |-> kind, lat |-> 0, lon |-> 0, out |-> <<>>,
                      num |-> 0, zoom |-> 0]
    IN  IF n < 3 THEN bad("usage")
        ELSE IF ~IsFloat(SysArgv(av, 1)) THEN bad("value_error")
        ELSE IF ~IsFloat(SysArgv(av, 2)) THEN bad("value_error")
        ELSE IF n < 4 THEN bad("index_error")
        ELSE IF n < 5 THEN bad("index_error")
        ELSE IF ~IsNumber(SysArgv(av, 4)) THEN bad("value_error")
        ELSE IF n > 4 /\ n < 6 THEN bad("index_error")
        ELSE IF n > 4 /\ ~IsNumber(SysArgv(av, 5)) THEN bad("value_error")
        ELSE [outcome |-> "ok",
              lat |-> FloatValue(SysArgv(av, 1)),
              lon |-> FloatValue(SysArgv(av, 2)),
              out |-> SysArgv(av, 3),
              num |-> IntValue(SysArgv(av, 4)),
              zoom |-> IF n > 4 THEN IntValue(SysArgv(av, 5)) ELSE DefaultZoom]

ValidCountFromZero(n) == ~(n < 0 \/ n > MaxPanos)

\* the range check on num_panos
ValidCount(n) == ~(n < MinPanos \/ n > MaxPanos)

ParseArgs ==
    /\ pc = "parse"
    /\ LET r == IF provider = "lookaround" THEN ParseLookaround(argv)
                ELSE ParseStreetview(argv)
       IN  /\ target_lat' = r.lat
           /\ target_lon' = r.lon
           /\ out_dir' = r.out
           /\ num_panos' = r.num
           /\ zoom' = r.zoom
           /\ IF r.outcome = "ok"
              THEN IF ValidCount(r.num)
                   THEN /\ pc' = "locate"
                        /\ UNCHANGED <<exit_code, exit_at, outVars>>
                   ELSE /\ Exit(1, "count_range")
                        /\ Printed(<<ParseMessage("count_range")>>, <<>>)
              ELSE /\ Exit(1, r.outcome)
                   /\ IF r.outcome = "index_error"
                      THEN Printed(<<>>, <<Traceback>>)
                      ELSE Printed(<<ParseMessage(r.outcome)>>, <<>>)
    /\ UNCHANGED <<argVars, outsideScript, initial_tile, tileVars, all_panos,
                   selected_panos, loopVars>>

----------------------------------------------------------------------------
(* Coverage lookup and the search window *)

\* what get_coverage_tile returns for a tile of the grid
TilePanos(tile) == IF tile \in DOMAIN coverage THEN coverage[tile] ELSE <<>>

CoverageCheckSkipped(answer, p) == FALSE

\* if not initial_tile: the lookup gave nothing.  For streetview the result is
\* the list of panoramas itself and an empty list is falsy.
NoCoverage(answer, p) ==
    \/ answer = "none"
    \/ p = "streetview" /\ TilePanos(CenterTile) = <<>>

\* get_coverage_tile_by_latlon: the provider has a tile at the target, has
\* none, or the call raises (nothing catches it: the interpreter exits 1).
Locate ==
    /\ pc = "locate"
    /\ \E answer \in {"tile", "none", "raise"} :
          IF answer = "raise"
          THEN /\ Exit(1, "crash")
               /\ Printed(<<>>, <<Traceback>>)
               /\ UNCHANGED initial_tile
          ELSE /\ initial_tile' = IF answer = "none" \/ NoCoverage(answer, provider)
                                  THEN NoTile ELSE FoundTile
               /\ IF NoCoverage(answer, provider)
                  THEN /\ Exit(1, "no_coverage")
                       /\ Printed(<<>>, <<Line(<<"No coverage tile found">>)>>)
                  ELSE /\ pc' = IF provider = "lookaround" THEN "window"
                                ELSE "collect"
                       /\ UNCHANGED <<exit_code, exit_at, outVars>>
    /\ UNCHANGED <<argVars, outsideScript, parsedVars, tileVars, all_panos,
                   selected_panos, loopVars>>

\* math.ceil(math.sqrt(n / d)): the least r with r * r * d >= n.  For d = 4
\* and n up to 500 the quotient is exact in binary floating point and the
\* root of a non-square quotient is far from an integer, so the rounding of
\* math.sqrt never changes the ceiling.
RECURSIVE CeilSqrtFrom(_, _, _)
CeilSqrtFrom(n, d, r) == IF r * r * d >= n THEN r ELSE CeilSqrtFrom(n, d, r + 1)

SearchRadius(n) == Max(1, CeilSqrtFrom(n, PanosPerTile, 0))

TileCoordsHalfOpen(x, y, r) ==
    { <<x + dx, y + dy>> : dx \in (-r)..(r - 1), dy \in (-r)..(r - 1) }

\* the two nested range(-search_radius, search_radius + 1) loops
TileCoordsToCheck(x, y, r) ==
    { <<x + dx, y + dy>> : dx \in (-r)..r, dy \in (-r)..r }

ExpandSearchWindow ==
    /\ pc = "window"
    /\ provider = "lookaround"
    /\ LET r == SearchRadius(num_panos)
           window == TileCoordsToCheck(initial_tile.x, initial_tile.y, r)
       IN  /\ search_radius' = r
           /\ tile_coords_to_check' = window
           /\ tiles_todo' = window
           /\ tile_fetches' = [t \in window |-> 0]
    /\ all_panos' = <<>>
    /\ pc' = "tiles"
    /\ UNCHANGED <<argVars, outsideScript, outVars, parsedVars, exit_code,
                   exit_at, initial_tile, tiles_failed, selected_panos,
                   loopVars>>

----------------------------------------------------------------------------
(* Index fetch *)

TilesLeftAbort(todo, tile, ok) == IF ok THEN todo \ {tile} ELSE {}

\* the tiles the for loop still visits after one iteration: an exception is
\* caught inside the loop body
TilesLeft(todo, tile, ok) == todo \ {tile}

\* all_panos.extend(tile.panos)
ExtendPanos(panos, found) == panos \o found

\* one iteration of the tile loop, get_lookaround.py lines 68-75.  A set is
\* iterated in an order the program does not choose.
FetchTile ==
    /\ pc = "tiles"
    /\ \E tile \in tiles_todo :
       \E ok \in {TRUE} \cup {FALSE : t \in FlakyTiles \cap {tile}} :
          /\ tile_fetches' = [tile_fetches EXCEPT ![tile] = @ + 1]
          /\ tiles_failed' = IF ok THEN tiles_failed ELSE tiles_failed \cup {tile}
          /\ all_panos' = IF ok THEN ExtendPanos(all_panos, TilePanos(tile))
                          ELSE all_panos
          /\ tiles_todo' = TilesLeft(tiles_todo, tile, ok)
          /\ pc' = IF TilesLeft(tiles_todo, tile, ok) = {} THEN "check_index"
                   ELSE "tiles"
    /\ UNCHANGED <<argVars, outsideScript, outVars, parsedVars, exit_code,
                   exit_at, initial_tile, search_radius, tile_coords_to_check,
                   selected_panos, loopVars>>

\* get_streetview.py lines 45-51: the panoramas of the initial tile
CollectPanos ==
    /\ pc = "collect"
    /\ provider = "streetview"
    /\ all_panos' = TilePanos(CenterTile)
    /\ pc' = "check_index"
    /\ UNCHANGED <<argVars, outsideScript, outVars, parsedVars, exit_code,
                   exit_at, initial_tile, tileVars, selected_panos, loopVars>>

IndexCheckSkipped(panos) == FALSE

\* not all_panos
IndexEmpty(panos) == panos = <<>>

\* if not all_panos: sys.exit(1)
CheckIndex ==
    /\ pc = "check_index"
    /\ IF IndexEmpty(all_panos)
       THEN /\ Exit(1, "empty_index")
            /\ Printed(<<>>, <<Line(<<"No panoramas found">>)>>)
       ELSE /\ pc' = "select"
            /\ UNCHANGED <<exit_code, exit_at, outVars>>
    /\ UNCHANGED <<argVars, outsideScript, parsedVars, initial_tile, tileVars,
                   all_panos, selected_panos, loopVars>>

----------------------------------------------------------------------------
(* Selection of the nearest panoramas *)

\* distance(lat1, lon1, lat2, lon2)
Distance(lat1, lon1, lat2, lon2) ==
    ISqrt(((lat1 - lat2) * (lat1 - lat2)) + ((lon1 - lon2) * (lon1 - lon2)))

\* the sort key of a record
Key(p, lat, lon) == Distance(p.lat, p.lon, lat, lon)

RECURSIVE InsertBefore(_, _, _, _)
InsertBefore(s, p, lat, lon) ==
    IF s = <<>> THEN <<p>>
    ELSE IF Key(p, lat, lon) <= Key(Head(s), lat, lon) THEN <<p>> \o s
    ELSE <<Head(s)>> \o InsertBefore(Tail(s), p, lat, lon)

\* sorted() is stable: a record goes behind every record whose key is not
\* larger than its own
RECURSIVE InsertPano(_, _, _, _)
InsertPano(s, p, lat, lon) ==
    IF s = <<>> THEN <<p>>
    ELSE IF Key(p, lat, lon) < Key(Head(s), lat, lon) THEN <<p>> \o s
    ELSE <<Head(s)>> \o InsertPano(Tail(s), p, lat, lon)

\* sorted(all_panos, key=lambda p: distance(p.lat, p.lon, target_lat, target_lon))
RECURSIVE SortedPanos(_, _, _)
SortedPanos(panos, lat, lon) ==
    IF panos = <<>> THEN <<>>
    ELSE InsertPano(SortedPanos(SubSeq(panos, 1, Len(panos) - 1), lat, lon),
                    panos[Len(panos)], lat, lon)

TakeOneMore(s, n) == SubSeq(s, 1, Min(n + 1, Len(s)))

\* sorted_panos[:num_panos]
Take(s, n) == SubSeq(s, 1, Min(n, Len(s)))

Select ==
    /\ pc = "select"
    /\ selected_panos' = Take(SortedPanos(all_panos, target_lat, target_lon),
                              num_panos)
    /\ pc' = "pano"
    /\ UNCHANGED <<argVars, outsideScript, outVars, parsedVars, exit_code,
                   exit_at, initial_tile, tileVars, all_panos, loopVars>>

----------------------------------------------------------------------------
(* The per-panorama loop *)

\* the loop is over once every selected panorama has had its iteration
AfterPano(done) == IF done = Len(selected_panos) THEN "summary" ELSE "pano"

\* get_lookaround.py lines 100-104: the head of one iteration
StartPano ==
    /\ pc = "pano"
    /\ provider = "lookaround"
    /\ pano_idx < Len(selected_panos)
    /\ faces' = <<>>
    /\ face_download_success' = TRUE
    /\ face_idx' = 0
    /\ pc' = "faces"
    /\ UNCHANGED <<argVars, outsideScript, outVars, parsedVars, exit_code,
                   exit_at, initial_tile, tileVars, all_panos, selected_panos,
                   pano_idx, successful_downloads, failed_downloads, files,
                   outcomes, last_fetch>>

FaceLoopNoBreak(idx, ok) == idx + 1 < NumFaces

\* whether the face loop has another iteration after face idx: the except
\* clause ends in break
FaceLoopGoesOn(idx, ok) == ok /\ idx + 1 < NumFaces

\* one iteration of the face loop, lines 106-115: fetch and decode of
\* face face_idx either succeed or raise
FetchFace ==
    /\ pc = "faces"
    /\ \E ok \in BOOLEAN :
          /\ last_fetch' = [pano |-> pano_idx + 1, face |-> face_idx, ok |-> ok]
          /\ faces' = IF ok THEN Append(faces, face_idx) ELSE faces
          /\ face_download_success' = IF ok THEN face_download_success ELSE FALSE
          /\ Printed(<<>>, IF ok THEN <<>>
                           ELSE <<Line(<<"Error downloading or processing face">>)>>)
          /\ IF FaceLoopGoesOn(face_idx, ok)
             THEN /\ face_idx' = face_idx + 1
                  /\ pc' = "faces"
             ELSE /\ face_idx' = face_idx
                  /\ pc' = "assemble"
    /\ UNCHANGED <<argVars, outsideScript, parsedVars, exit_code, exit_at,
                   initial_tile, tileVars, all_panos, selected_panos,
                   pano_idx, successful_downloads, failed_downloads, files,
                   outcomes>>

\* f"{pano.id}_{zoom}.jpg"
LookaroundFileName(id, z) ==
    StrOfInt(id) \o <<"_">> \o StrOfInt(z) \o <<".", "j", "p", "g">>

\* f"google_{pano.id}_{zoom}.jpg"
StreetviewFileName(id, z) ==
    <<"g", "o", "o", "g", "l", "e", "_">> \o StrOfInt(id) \o <<"_">>
        \o StrOfInt(z) \o <<".", "j", "p", "g">>

CanAssembleAny(success, fs) == Len(fs) >= 1

\* if face_download_success and len(faces) == 6
CanAssemble(success, fs) == success /\ Len(fs) = NumFaces

\* lines 117-129: conversion and save of one panorama, or the skip
Assemble ==
    /\ pc = "assemble"
    /\ LET pano == selected_panos[pano_idx + 1]
       IN  IF CanAssemble(face_download_success, faces)
           THEN \E saved \in BOOLEAN :
                   IF saved
                   THEN /\ files' = Append(files,
                               [name |-> LookaroundFileName(pano.id, zoom),
                                dir |-> out_dir, id |-> pano.id,
                                inst |-> pano.inst, faces |-> faces])
                        /\ successful_downloads' = successful_downloads + 1
                        /\ outcomes' = Append(outcomes, "saved")
                        /\ Printed(<<LookaroundSavedLine(PathJoin(out_dir,
                                        LookaroundFileName(pano.id, zoom)))>>,
                                   <<>>)
                        /\ UNCHANGED failed_downloads
                   ELSE /\ failed_downloads' = failed_downloads + 1
                        /\ outcomes' = Append(outcomes, "assemble_error")
                        /\ Printed(<<>>, <<Line(<<"Error creating or saving">>)>>)
                        /\ UNCHANGED <<files, successful_downloads>>
           ELSE /\ failed_downloads' = failed_downloads + 1
                /\ outcomes' = Append(outcomes, "faces_missing")
                /\ Printed(<<>>, <<Line(<<"Could not download all 6 faces">>)>>)
                /\ UNCHANGED <<files, successful_downloads>>
    /\ pano_idx' = pano_idx + 1
    /\ pc' = AfterPano(pano_idx + 1)
    /\ UNCHANGED <<argVars, outsideScript, parsedVars, exit_code, exit_at,
                   initial_tile, tileVars, all_panos, selected_panos, faces,
                   face_download_success, face_idx, last_fetch>>

\* what one iteration of the streetview loop can meet
StreetviewOutcomes ==
    {"saved", "no_result", "lookup_error", "download_error", "save_error"}

\* get_streetview.py lines 76-92: one iteration.  find_panorama_by_id returns
\* a panorama, returns nothing, or raises; get_panorama and save may raise.
ProcessPano ==
    /\ pc = "pano"
    /\ provider = "streetview"
    /\ pano_idx < Len(selected_panos)
    /\ \E outcome \in StreetviewOutcomes :
          LET pano == selected_panos[pano_idx + 1]
          IN  /\ outcomes' = Append(outcomes, outcome)
              /\ IF outcome = "saved"
                 THEN /\ files' = Append(files,
                             [name |-> StreetviewFileName(pano.id, zoom),
                              dir |-> out_dir, id |-> pano.id,
                              inst |-> pano.inst, faces |-> <<>>])
                      /\ successful_downloads' = successful_downloads + 1
                      /\ Printed(<<GotPanoLine(pano.id),
                                   StreetviewSavedLine(PathJoin(out_dir,
                                       StreetviewFileName(pano.id, zoom)))>>,
                                 <<>>)
                      /\ UNCHANGED failed_downloads
                 ELSE IF outcome = "no_result"
                 THEN UNCHANGED <<files, successful_downloads, failed_downloads,
                                  outVars>>
                 ELSE /\ failed_downloads' = failed_downloads + 1
                      /\ Printed((IF outcome = "lookup_error" THEN <<>>
                                   ELSE <<GotPanoLine(pano.id)>>)
                                     \o <<Line(<<"Failed to get pano">>)>>,
                                 <<>>)
                      /\ UNCHANGED <<files, successful_downloads>>
    /\ pano_idx' = pano_idx + 1
    /\ pc' = AfterPano(pano_idx + 1)
    /\ UNCHANGED <<argVars, outsideScript, parsedVars, exit_code, exit_at,
                   initial_tile, tileVars, all_panos, selected_panos, faces,
                   face_download_success, face_idx, last_fetch>>

----------------------------------------------------------------------------
(* Summary *)

ExitCodeStrict(succeeded, failed) == IF succeeded = 0 \/ failed > 0 THEN 1 ELSE 0

\* sys.exit(1) when nothing succeeded; otherwise the script runs off its end
ExitCode(succeeded, failed) == IF succeeded = 0 THEN 1 ELSE 0

Summary ==
    /\ pc = "summary"
    /\ Exit(ExitCode(successful_downloads, failed_downloads), "summary")
    /\ Printed(<<ProcessedLine(successful_downloads)>>,
               SummaryWarning(successful_downloads, failed_downloads))
    /\ UNCHANGED <<argVars, outsideScript, parsedVars, initial_tile, tileVars,
                   all_panos, selected_panos, loopVars>>

----------------------------------------------------------------------------
(* The scripts as a whole *)

Next ==
    \/ ParseArgs
    \/ Locate
    \/ ExpandSearchWindow
    \/ FetchTile
    \/ CollectPanos
    \/ CheckIndex
    \/ Select
    \/ StartPano
    \/ FetchFace
    \/ Assemble
    \/ ProcessPano
    \/ Summary

Spec == Init /\ [][Next]_vars

----------------------------------------------------------------------------
(* The selector on its own: get_streetview.py right after its index check,  *)
(* for every short list of records the initial tile can hold.               *)

\* the values the argument vector parses to
ParsedFrom(r) ==
    /\ target_lat = r.lat
    /\ target_lon = r.lon
    /\ out_dir = r.out
    /\ num_panos = r.num
    /\ zoom = r.zoom

RecordLists ==
    UNION { { [i \in 1..n |-> Pano(ids[i], i)] : ids \in [1..n -> 1..MaxPanoId] } :
            n \in 1..MaxRecords }

SelectArgs ==
    { <<ScriptOf("streetview"), StrOfInt(lat), StrOfInt(lon), OutToken,
        StrOfInt(k), StrOfInt(DefaultZoom)>> :
          lat \in {0, 2}, lon \in {0, 1},
          k \in (MinPanos..(MaxRecords + 1)) \cup {MaxPanos} }

InitSelect ==
    /\ provider = "streetview"
    /\ argv \in SelectArgs
    /\ coverage \in { (CenterTile :> l) @@ (NeighbourTile :> <<>>) :
                        l \in RecordLists }
    /\ ParsedFrom(ParseStreetview(argv))
    /\ pc = "select"
    /\ exit_code = 0
    /\ exit_at = "none"
    /\ initial_tile = FoundTile
    /\ NoWindow
    /\ all_panos = coverage[CenterTile]
    /\ selected_panos = <<>>
    /\ LoopNotStarted
    /\ NoOutput
    /\ Standalone
    /\ ToolsIdle

NextSelect == Select

SpecSelect == InitSelect /\ [][NextSelect]_vars

----------------------------------------------------------------------------
(* The search window on its own: get_lookaround.py right after the coverage *)
(* lookup, for every accepted panorama count.                               *)

WindowArgs ==
    { <<ScriptOf("lookaround"), StrOfInt(0), StrOfInt(0), StrOfInt(n)>> :
          n \in MinPanos..MaxPanos }

InitWindow ==
    /\ provider = "lookaround"
    /\ argv \in WindowArgs
    /\ coverage = (CenterTile :> <<>>) @@ (NeighbourTile :> <<>>)
    /\ ParsedFrom(ParseLookaround(argv))
    /\ pc = "window"
    /\ exit_code = 0
    /\ exit_at = "none"
    /\ initial_tile = FoundTile
    /\ NoWindow
    /\ all_panos = <<>>
    /\ selected_panos = <<>>
    /\ LoopNotStarted
    /\ NoOutput
    /\ Standalone
    /\ ToolsIdle

NextWindow == ExpandSearchWindow

SpecWindow == InitWindow /\ [][NextWindow]_vars

----------------------------------------------------------------------------
(* The web endpoints of app.py: stream_lookaround_data and                  *)
(* stream_streetview_data.  endpoint names the provider whose script the    *)
(* endpoint spawns.                                                         *)

\* request.args.get(name, default): a missing parameter without a default is
\* None, which "not lat" treats like the empty string
ArgsGet(req, name, default) == IF name \in req.given THEN req[name] ELSE default

\* the four parameters as the handler reads them; zoom is the query
\* parameter zoom_lvl
ReadRequest(req) ==
    [lat |-> ArgsGet(req, "lat", <<>>),
     lon |-> ArgsGet(req, "lon", <<>>),
     num_panos |-> ArgsGet(req, "num_panos", StrOfInt(1)),
     zoom |-> ArgsGet(req, "zoom", StrOfInt(2))]

\* the checks of the handler before it streams: "required" when a coordinate
\* is missing, "invalid" when a conversion raises or the count is out of
\* range, "ok" otherwise
RequestCheck(req) ==
    LET a == ReadRequest(req)
    IN  IF a.lat = <<>> \/ a.lon = <<>> THEN "required"
        ELSE IF ~IsFloat(a.lat) \/ ~IsFloat(a.lon) THEN "invalid"
        ELSE IF ~IsNumber(a.num_panos) \/ ~IsNumber(a.zoom) THEN "invalid"
        ELSE IF ~ValidCount(IntValue(a.num_panos)) THEN "invalid"
        ELSE "ok"

\* an event; the fields its type does not carry stay empty.  The wording
\* of the endpoint's own messages is named by reason.
Event(type) ==
    [type |-> type, reason |-> "", message |-> <<>>, path |-> <<>>,
     pano_id |-> <<>>, status |-> "", image_paths |-> <<>>, total_images |-> 0,
     code |-> 0]

ErrorEvent(reason) == [Event("error") EXCEPT !.reason = reason]

\* yield of an event of the handler's own
Yield(event) == events' = [events EXCEPT !.own = Append(@, event)]

\* lines 72-104: validation of the request and the look for the script file
HandleRequest ==
    /\ web_pc = "request"
    /\ \E script_exists \in BOOLEAN :
          LET check == RequestCheck(request)
          IN  IF check # "ok"
              THEN /\ Yield(ErrorEvent(check))
                   /\ web_pc' = "closed"
              ELSE IF ~script_exists
              THEN /\ Yield(ErrorEvent("not_found"))
                   /\ web_pc' = "closed"
              ELSE /\ web_pc' = "generate"
                   /\ UNCHANGED events
    /\ UNCHANGED <<provider, argv, pc, scriptVars, endpoint, request,
                   read_stdout, read_stderr, q_stdout, q_stderr,
                   saved_filenames, toolVars>>

\* [sys.executable, script_path, str(lat), str(lon), str(num_panos)]
SpawnArgs(p, req) ==
    LET a == ReadRequest(req)
    IN  <<ScriptOf(p), StrOfFloat(FloatValue(a.lat)),
          StrOfFloat(FloatValue(a.lon)), StrOfInt(IntValue(a.num_panos))>>

\* lines 106-137: generate() starts the script and the two reader threads;
\* an exception of Popen is reported as app_error
Spawn ==
    /\ web_pc = "generate"
    /\ \E started \in BOOLEAN :
          IF started
          THEN /\ argv' = SpawnArgs(endpoint, request)
               /\ pc' = "parse"
               /\ web_pc' = "poll"
               /\ UNCHANGED events
          ELSE /\ Yield([Event("app_error") EXCEPT !.reason = "Popen"])
               /\ web_pc' = "closed"
               /\ UNCHANGED <<argv, pc>>
    /\ UNCHANGED <<provider, scriptVars, endpoint, request, read_stdout,
                   read_stderr, q_stdout, q_stderr, saved_filenames, toolVars>>

----------------------------------------------------------------------------
(* Validation of the panorama count on its own: a request to an endpoint,   *)
(* or a script started from a command line, for every count around the     *)
(* accepted range; the run is followed up to the coverage lookup.           *)

CountRange == (MinPanos - CountMargin)..(MaxPanos + CountMargin)

NotANumber == <<"x">>

Requests ==
    { [given |-> g, lat |-> lat, lon |-> StrOfInt(0), num_panos |-> n,
       zoom |-> StrOfInt(DefaultZoom)] :
          g \in {{"lat", "lon", "num_panos", "zoom"}, {"lat", "lon", "num_panos"},
                 {"lat", "lon", "zoom"}, {"lon", "num_panos"}},
          lat \in {StrOfInt(0), NotANumber},
          n \in {StrOfInt(c) : c \in CountRange} \cup {NotANumber} }

\* command lines in the layout each script reads
CountArgs(p) ==
    IF p = "lookaround"
    THEN { <<ScriptOf(p), StrOfInt(0), StrOfInt(0), StrOfInt(c)>> :
              c \in CountRange }
    ELSE { <<ScriptOf(p), StrOfInt(0), StrOfInt(0), OutToken, StrOfInt(c),
             StrOfInt(DefaultZoom)>> : c \in CountRange }

\* the script of a served run is not started before Spawn
Unspawned == pc = "unspawned" /\ argv = <<>> /\ Blank

InitEndpoint ==
    /\ provider \in Providers
    /\ ToolsIdle
    /\ coverage = (CenterTile :> <<Pano(1, 1)>>) @@ (NeighbourTile :> <<>>)
    /\ \/ /\ argv \in CountArgs(provider)
          /\ Fresh
          /\ Standalone
       \/ /\ endpoint = provider
          /\ request \in Requests
          /\ web_pc = "request"
          /\ RelayNotStarted
          /\ Unspawned

NextEndpoint ==
    \/ HandleRequest
    \/ Spawn
    \/ ParseArgs
    \/ Locate

SpecEndpoint == InitEndpoint /\ [][NextEndpoint]_vars

----------------------------------------------------------------------------
(* scripts/to_perspective.py *)

\* the script and everything around it that to_perspective.py and
\* grab_panorama.py never touch
besideTools == <<provider, argv, pc, scriptVars, webVars, pageVars>>

\* no provider script and no endpoint is running
NoPipeline ==
    /\ provider = "lookaround"
    /\ coverage = (CenterTile :> <<>>) @@ (NeighbourTile :> <<>>)
    /\ Unspawned
    /\ Standalone

Jpg == <<".", "j", "p", "g">>

\* the part of a path behind its last separator: os.path.basename
RECURSIVE Basename(_)
Basename(path) ==
    IF \E i \in DOMAIN path : path[i] = "/"
    THEN Basename(Tail(path))
    ELSE path

\* s.split(sep)[0]: what stands before the first sep
RECURSIVE BeforeFirst(_, _)
BeforeFirst(s, sep) ==
    IF s = <<>> \/ Head(s) = sep THEN <<>>
    ELSE <<Head(s)>> \o BeforeFirst(Tail(s), sep)

NumPics == 8

PitchVals == <<0 - 30, 0, 30>>

YawValsHalfTurn(n) == [i \in 1..n |-> ((i - 1) * (360 \div n)) % 180]

\* yaw_vals = [i*(360//num_pics) for i in range(num_pics)]
YawVals(n) == [i \in 1..n |-> (i - 1) * (360 \div n)]

\* tasks = [(pitch, yaw) for pitch in pitch_vals for yaw in yaw_vals]
Tasks(pitches, yaws) ==
    [k \in 1..(Len(pitches) * Len(yaws)) |->
        [pitch |-> pitches[((k - 1) \div Len(yaws)) + 1],
         yaw |-> yaws[((k - 1) % Len(yaws)) + 1]]]

\* f"{file_name}_split_{yaw}_{pitch}.jpg"
SplitFileName(name, yaw, pitch) ==
    name \o <<"_", "s", "p", "l", "i", "t", "_">> \o StrOfInt(yaw) \o <<"_">>
         \o StrOfInt(pitch) \o Jpg

\* lines 75-81: the script needs an image path and an output path
Main ==
    /\ tp_pc = "main"
    /\ IF Len(tp_argv) < 3
       THEN tp_pc' = "done" /\ tp_exit' = 1
       ELSE tp_pc' = "open" /\ tp_exit' = tp_exit
    /\ UNCHANGED <<tp_argv, pano_file, file_name, tp_out_dir, tasks, task_idx,
                   success_count, attempts, tp_files, mosaicVars, besideTools>>

\* what can lie at the image path: a readable image, a file cv2.imread
\* cannot decode, or nothing
PanoFiles == {"image", "not_image", "missing"}

\* pano_to_perspective lines 27-61: the input file is there or not, and
\* cv2.imread gives an image or not; False is returned for both failures
\* and the script exits 1
OpenPanorama ==
    /\ tp_pc = "open"
    /\ LET exists == pano_file # "missing"
           loads == pano_file = "image"
       IN  IF ~exists
          THEN /\ tp_pc' = "done" /\ tp_exit' = 1
               /\ UNCHANGED <<file_name, tp_out_dir, tasks>>
          ELSE /\ file_name' = BeforeFirst(Basename(SysArgv(tp_argv, 1)), ".")
               /\ tp_out_dir' = PathJoin(SysArgv(tp_argv, 2),
                                         <<"perspectives">>)
               /\ IF loads
                  THEN /\ tasks' = Tasks(PitchVals, YawVals(NumPics))
                       /\ tp_pc' = "sample"
                       /\ tp_exit' = tp_exit
                  ELSE /\ tp_pc' = "done" /\ tp_exit' = 1
                       /\ UNCHANGED tasks
    /\ UNCHANGED <<tp_argv, pano_file, task_idx, success_count, attempts,
                   tp_files, mosaicVars, besideTools>>

Failures(as) == Cardinality({i \in DOMAIN as : ~as[i].ok})

AfterSampleBreak(idx, ok, n) == IF ok THEN idx + 1 ELSE n

\* the for loop goes to the next task whatever happened to this one
AfterSample(idx, ok, n) == idx + 1

\* lines 64-69 with generate_and_save: one sample is rendered at
\* u_deg = yaw, v_deg = pitch and saved, or an exception is caught
Sample ==
    /\ tp_pc = "sample"
    /\ task_idx < Len(tasks)
    /\ \E ok \in BOOLEAN :
          LET pitch == tasks[task_idx + 1].pitch
              yaw == tasks[task_idx + 1].yaw
              out_file_name ==
                  PathJoin(tp_out_dir, SplitFileName(file_name, yaw, pitch))
          IN  /\ ok \/ Failures(attempts) < MaxSampleFailures
              /\ attempts' = Append(attempts,
                     [u_deg |-> yaw, v_deg |-> pitch, ok |-> ok,
                      out_file_name |-> out_file_name])
              /\ tp_files' = IF ok THEN Append(tp_files, out_file_name)
                             ELSE tp_files
              /\ success_count' = IF ok THEN success_count + 1
                                  ELSE success_count
              /\ task_idx' = AfterSample(task_idx, ok, Len(tasks))
    /\ UNCHANGED <<tp_argv, pano_file, tp_pc, tp_exit, file_name, tp_out_dir,
                   tasks, mosaicVars, besideTools>>

\* lines 71-73 and 82-85: pano_to_perspective returns True
Finish ==
    /\ tp_pc = "sample"
    /\ task_idx >= Len(tasks)
    /\ tp_pc' = "done"
    /\ tp_exit' = 0
    /\ UNCHANGED <<tp_argv, pano_file, file_name, tp_out_dir, tasks, task_idx,
                   success_count, attempts, tp_files, mosaicVars, besideTools>>

PanoramaPaths ==
    { PathJoin(OutToken, LookaroundFileName(1, DefaultZoom)),
      PathJoin(OutToken, StreetviewFileName(1, DefaultZoom)) }

\* split_panoramas_to_perspective: cmd = [sys.executable, script_path,
\* file_path]
SplitCmd(file_path) == <<"to_perspective.py", file_path>>

PerspectiveArgs ==
    {<<"to_perspective.py">>}
        \cup {SplitCmd(path) : path \in PanoramaPaths}
        \cup {<<"to_perspective.py", path, OutToken>> : path \in PanoramaPaths}

InitPerspective ==
    /\ NoPipeline
    /\ NoMosaic
    /\ NoPage
    /\ tp_argv \in PerspectiveArgs
    /\ pano_file \in PanoFiles
    /\ tp_pc = "main" /\ tp_exit = 0
    /\ file_name = <<>> /\ tp_out_dir = <<>>
    /\ tasks = <<>> /\ task_idx = 0 /\ success_count = 0
    /\ attempts = <<>> /\ tp_files = <<>>

NextPerspective ==
    \/ Main
    \/ OpenPanorama
    \/ Sample
    \/ Finish

SpecPerspective == InitPerspective /\ [][NextPerspective]_vars

----------------------------------------------------------------------------
(* scripts/grab_panorama.py: get_all_tiles followed by stitch_tiles, as     *)
(* main() calls them, into a tile directory that starts empty.              *)

besideMosaic == <<besideTools, perspVars>>

TileSize == 512

RECURSIVE IntPower(_, _)
IntPower(b, e) == IF e = 0 THEN 1 ELSE b * IntPower(b, e - 1)

\* 2 ** e: an int for e >= 0, the float 1 / 2 ** -e below
TwoToThe(e) ==
    IF e >= 0 THEN WholeNumber(IntPower(2, e))
    ELSE [num |-> 1, den |-> IntPower(2, 0 - e)]

\* get_tile_grid_size(zoom)
GetTileGridSize(z) == [x |-> TwoToThe(z), y |-> TwoToThe(z - 1)]

\* the cells <<x, y>> of an x by y grid
Cells(x, y) == (0..(x - 1)) \X (0..(y - 1))

\* lines 25-33: the grid size and the head of the loops; range() of a float
\* raises TypeError
GridSize ==
    /\ grid_pc = "start"
    /\ LET size == GetTileGridSize(grid_zoom)
       IN  /\ x_tiles' = size.x
           /\ y_tiles' = size.y
           /\ IF size.x.den = 1 /\ size.y.den = 1
              THEN /\ requests_made' = [c \in Cells(size.x.num, size.y.num) |-> 0]
                   /\ tile_files' = [c \in Cells(size.x.num, size.y.num) |-> "none"]
                   /\ grid_pc' = "fetch"
              ELSE /\ grid_pc' = "crashed"
                   /\ UNCHANGED <<requests_made, tile_files>>
    /\ UNCHANGED <<grid_zoom, cell, tile_count, stitched, besideMosaic>>

\* what requests.get and the server can do to one tile request: an image, a
\* body of at most one byte, an error status with an error page as body, or
\* an exception of requests.get
TileResponses == {"image", "empty", "http_error", "transport_error"}

\* cells requested so far that got no image
BadTiles ==
    Cardinality({c \in DOMAIN requests_made :
                    requests_made[c] > 0 /\ tile_files[c] # "image"})

\* for y in range(y_tiles): for x in range(x_tiles)
CellAfter(c) == IF c[1] + 1 < x_tiles.num THEN <<c[1] + 1, c[2]>>
                ELSE <<0, c[2] + 1>>

\* lines 35-52: one tile.  requests.get stands outside every try;
\* raise_for_status is swallowed; a body longer than one byte is written to
\* the tile file whatever the status was
FetchTileImage ==
    /\ grid_pc = "fetch"
    /\ \E response \in TileResponses :
          /\ response = "image" \/ BadTiles < MaxBadTiles
          /\ requests_made' = [requests_made EXCEPT ![cell] = @ + 1]
          /\ IF response = "transport_error"
             THEN /\ grid_pc' = "crashed"
                  /\ UNCHANGED <<tile_files, tile_count, cell>>
             ELSE /\ IF response = "empty"
                     THEN UNCHANGED <<tile_files, tile_count>>
                     ELSE /\ tile_files' =
                                [tile_files EXCEPT ![cell] =
                                    IF response = "image" THEN "image"
                                    ELSE "error_page"]
                          /\ tile_count' = tile_count + 1
                  /\ cell' = CellAfter(cell)
                  /\ grid_pc' = IF CellAfter(cell)[2] < y_tiles.num THEN "fetch"
                                ELSE "stitch"
    /\ UNCHANGED <<grid_zoom, x_tiles, y_tiles, stitched, besideMosaic>>

\* the tiles stitch_tiles can open: an error page is no image
Loaded == {c \in DOMAIN tile_files : tile_files[c] = "image"}

\* lines 62-110: the loaded tiles, resized to 512 x 512 where needed, are
\* pasted onto a black image; without any loaded tile the function returns
\* nothing
StitchTiles ==
    /\ grid_pc = "stitch"
    /\ stitched' =
          IF Cardinality(Loaded) = 0 THEN NoImage
          ELSE [made |-> TRUE,
                size |-> <<TileSize * x_tiles.num, TileSize * y_tiles.num>>,
                pasted |-> {[cell |-> c,
                             at |-> <<c[1] * TileSize, c[2] * TileSize>>] :
                               c \in Loaded}]
    /\ grid_pc' = "done"
    /\ UNCHANGED <<grid_zoom, x_tiles, y_tiles, cell, requests_made,
                   tile_files, tile_count, besideMosaic>>

InitMosaic ==
    /\ NoPipeline
    /\ NoConversion
    /\ NoPage
    /\ grid_zoom \in 0..MaxGridZoom
    /\ grid_pc = "start"
    /\ x_tiles = WholeNumber(0) /\ y_tiles = WholeNumber(0)
    /\ cell = <<0, 0>>
    /\ requests_made = <<>> /\ tile_files = <<>>
    /\ tile_count = 0
    /\ stitched = NoImage

NextMosaic ==
    \/ GridSize
    \/ FetchTileImage
    \/ StitchTiles

SpecMosaic == InitMosaic /\ [][NextMosaic]_vars

----------------------------------------------------------------------------
(* The relay of generate(): two reader threads move the lines of the        *)
(* script's stdout and stderr into queues, the polling loop turns queued    *)
(* lines into events.                                                       *)

\* the threads run and the generator has not ended
Relaying == web_pc \in {"poll", "get_stdout", "get_stderr", "wait"}

\* enqueue_output(process.stdout, q_stdout): one line read and queued
ReadStdout ==
    /\ Relaying
    /\ read_stdout < Len(stdout)
    /\ q_stdout' = Append(q_stdout, stdout[read_stdout + 1])
    /\ read_stdout' = read_stdout + 1
    /\ UNCHANGED <<provider, argv, pc, scriptVars, endpoint, request, web_pc,
                   read_stderr, q_stderr, saved_filenames, events, toolVars>>

\* enqueue_output(process.stderr, q_stderr)
ReadStderr ==
    /\ Relaying
    /\ read_stderr < Len(stderr)
    /\ q_stderr' = Append(q_stderr, stderr[read_stderr + 1])
    /\ read_stderr' = read_stderr + 1
    /\ UNCHANGED <<provider, argv, pc, scriptVars, endpoint, request, web_pc,
                   read_stdout, q_stdout, saved_filenames, events, toolVars>>

KeepPollingOnceExited(exited, out, err) == exited \/ out # <<>> \/ err # <<>>

\* while process.poll() is None or not q_stdout.empty() or not q_stderr.empty()
KeepPolling(exited, out, err) == ~exited \/ out # <<>> \/ err # <<>>

PollLoop ==
    /\ web_pc = "poll"
    /\ web_pc' = IF KeepPolling(pc = "done", q_stdout, q_stderr)
                 THEN "get_stdout" ELSE "wait"
    /\ UNCHANGED <<provider, argv, pc, scriptVars, endpoint, request,
                   read_stdout, read_stderr, q_stdout, q_stderr,
                   saved_filenames, events, toolVars>>

\* marker in line
Contains(line, marker) == \E i \in DOMAIN line : line[i] = marker

\* line.split(marker)[-1]: what follows the last marker, the whole line when
\* there is none
RECURSIVE AfterLast(_, _)
AfterLast(line, marker) ==
    IF Contains(line, marker)
    THEN AfterLast(SubSeq(line, (CHOOSE i \in DOMAIN line : line[i] = marker) + 1,
                          Len(line)), marker)
    ELSE line

IsSpace(c) == c = " " \/ c = "\n"

\* s.strip()
RECURSIVE Strip(_)
Strip(s) ==
    IF s = <<>> THEN s
    ELSE IF IsSpace(Head(s)) THEN Strip(Tail(s))
    ELSE IF IsSpace(s[Len(s)]) THEN Strip(SubSeq(s, 1, Len(s) - 1))
    ELSE s

\* the wording an endpoint looks for in a line of stdout
SavedMarker(e) == IF e = "lookaround" THEN "Saved equirectangular panorama:"
                  ELSE "Saved streetview panorama:"

\* the wording an endpoint splits such a line at
SplitMarker(e) == IF e = "lookaround" THEN "Saved equirectangular panorama:"
                  ELSE "Saved streetview pano to "

\* saved_filename.split('_')[0] if '_' in saved_filename
\* else saved_filename.split('.')[0]
PanoIdOf(saved_filename) ==
    IF Contains(saved_filename, "_") THEN BeforeFirst(saved_filename, "_")
    ELSE BeforeFirst(saved_filename, ".")

RecordSavedFirst(names, name) == <<name>> \o names

\* saved_filenames.append(saved_filename)
RecordSaved(names, name) == Append(names, name)

\* lines 140-155: q_stdout.get_nowait() and the event for the line
GetStdout ==
    /\ web_pc = "get_stdout"
    /\ IF q_stdout = <<>>
       THEN UNCHANGED <<q_stdout, saved_filenames, events>>
       ELSE LET line == Head(q_stdout)
                saved_path == Strip(AfterLast(line, SplitMarker(endpoint)))
                saved_filename == Basename(saved_path)
            IN  /\ q_stdout' = Tail(q_stdout)
                /\ IF Contains(line, SavedMarker(endpoint))
                   THEN /\ saved_filenames' =
                              RecordSaved(saved_filenames, saved_filename)
                        /\ events' = [events EXCEPT !.stdout = Append(@,
                              [Event("saved_image") EXCEPT
                                  !.path = saved_filename,
                                  !.pano_id = PanoIdOf(saved_filename)])]
                   ELSE /\ events' = [events EXCEPT !.stdout = Append(@,
                              [Event("stdout") EXCEPT !.message = line])]
                        /\ UNCHANGED saved_filenames
    /\ web_pc' = "get_stderr"
    /\ UNCHANGED <<provider, argv, pc, scriptVars, endpoint, request,
                   read_stdout, read_stderr, q_stderr, toolVars>>

\* lines 157-164: q_stderr.get_nowait(), then the sleep
GetStderr ==
    /\ web_pc = "get_stderr"
    /\ IF q_stderr = <<>>
       THEN UNCHANGED <<q_stderr, events>>
       ELSE /\ q_stderr' = Tail(q_stderr)
            /\ events' = [events EXCEPT !.stderr = Append(@,
                  [Event("stderr") EXCEPT !.message = Head(q_stderr)])]
    /\ web_pc' = "poll"
    /\ UNCHANGED <<provider, argv, pc, scriptVars, endpoint, request,
                   read_stdout, read_stderr, q_stdout, saved_filenames,
                   toolVars>>

\* lines 166-171: process.wait() and the closing event
EndOfScript ==
    /\ web_pc = "wait"
    /\ pc = "done"
    /\ Yield(IF exit_code = 0
             THEN [Event("script_end") EXCEPT
                      !.status = "success",
                      !.image_paths = saved_filenames,
                      !.total_images = Len(saved_filenames)]
             ELSE [Event("script_end") EXCEPT
                      !.status = "failure", !.code = exit_code])
    /\ web_pc' = "closed"
    /\ UNCHANGED <<provider, argv, pc, scriptVars, endpoint, request,
                   read_stdout, read_stderr, q_stdout, q_stderr,
                   saved_filenames, toolVars>>

\* what the provider holds in a served run: the record listed first lies
\* farther from the target than the second
RelayWorld ==
    (CenterTile :> <<Pano(3, 1), Pano(2, 2)>>) @@ (NeighbourTile :> <<>>)

RelayRequests ==
    { [given |-> {"lat", "lon", "num_panos", "zoom"}, lat |-> StrOfInt(0),
       lon |-> StrOfInt(0), num_panos |-> StrOfInt(n),
       zoom |-> StrOfInt(DefaultZoom)] : n \in MinPanos..MaxRelayPanos }

InitRelay ==
    /\ provider \in Providers
    /\ coverage = RelayWorld
    /\ endpoint = provider
    /\ request \in RelayRequests
    /\ web_pc = "request"
    /\ RelayNotStarted
    /\ Unspawned
    /\ ToolsIdle

\* get_streetview.py is given too few arguments by its endpoint and ends in
\* argument parsing: of the scripts' statements only those of
\* get_lookaround.py go on from there
NextRelay ==
    \/ HandleRequest
    \/ Spawn
    \/ ParseArgs
    \/ Locate
    \/ ExpandSearchWindow
    \/ FetchTile
    \/ CheckIndex
    \/ Select
    \/ StartPano
    \/ FetchFace
    \/ Assemble
    \/ Summary
    \/ ReadStdout
    \/ ReadStderr
    \/ PollLoop
    \/ GetStdout
    \/ GetStderr
    \/ EndOfScript

SpecRelay == InitRelay /\ [][NextRelay]_vars

\* a statement of the spawned script
ScriptStep ==
    \/ ParseArgs
    \/ Locate
    \/ ExpandSearchWindow
    \/ FetchTile
    \/ CheckIndex
    \/ Select
    \/ StartPano
    \/ FetchFace
    \/ Assemble
    \/ Summary

\* a step of the generator, which is one sequential piece of code
GeneratorStep ==
    \/ HandleRequest
    \/ Spawn
    \/ PollLoop
    \/ GetStdout
    \/ GetStderr
    \/ EndOfScript

\* The relay under fair scheduling: the script is a process of its own and
\* goes on to its exit, each reader thread is run when a line can be read,
\* and the generator is resumed as long as the response is consumed.
RelayFairness ==
    /\ WF_vars(ScriptStep)
    /\ WF_vars(ReadStdout)
    /\ WF_vars(ReadStderr)
    /\ WF_vars(GeneratorStep)

\* a served run for the smallest count
InitRelayFair ==
    /\ InitRelay
    /\ IntValue(request.num_panos) = MinPanos

SpecRelayFair == InitRelayFair /\ [][NextRelay]_vars /\ RelayFairness

----------------------------------------------------------------------------
(* The relay's reading of a "Saved ..." line on its own: the queue holds    *)
(* the line a provider script prints for a panorama it has saved, for every *)
(* id, zoom and output directory, and the endpoint of that provider takes   *)
(* it from the queue.                                                       *)

\* the zoom levels a caller can ask for: the options of the page's selectbox
ZoomLevels == 0..5

\* the file a script writes for a panorama
SavedFile(p, dir, id, z) ==
    [name |-> IF p = "lookaround" THEN LookaroundFileName(id, z)
              ELSE StreetviewFileName(id, z),
     dir |-> dir, id |-> id, inst |-> id, faces |-> <<>>]

\* the line it prints after the save
SavedLine(p, f) ==
    IF p = "lookaround" THEN LookaroundSavedLine(PathJoin(f.dir, f.name))
    ELSE StreetviewSavedLine(PathJoin(f.dir, f.name))

InitSavedLine ==
    /\ provider \in Providers
    /\ endpoint = provider
    /\ coverage = RelayWorld
    /\ argv = <<>> /\ pc = "unspawned"
    /\ exit_code = 0 /\ exit_at = "none"
    /\ NothingParsed
    /\ initial_tile = NoTile
    /\ NoWindow
    /\ all_panos = <<>> /\ selected_panos = <<>>
    /\ pano_idx = 0 /\ faces = <<>> /\ face_download_success = TRUE
    /\ face_idx = 0 /\ successful_downloads = 0 /\ failed_downloads = 0
    /\ outcomes = <<>> /\ last_fetch = NoFetch
    /\ stderr = <<>>
    /\ \E id \in 1..MaxPanoId, z \in ZoomLevels, dir \in {OutToken, DataOutput} :
          /\ files = <<SavedFile(provider, dir, id, z)>>
          /\ stdout = <<SavedLine(provider, files[1])>>
    /\ request = NoRequest
    /\ web_pc = "get_stdout"
    /\ read_stdout = 1 /\ read_stderr = 0
    /\ q_stdout = stdout /\ q_stderr = <<>>
    /\ saved_filenames = <<>>
    /\ events = NoEvents
    /\ ToolsIdle

NextSavedLine == GetStdout

SpecSavedLine == InitSavedLine /\ [][NextSavedLine]_vars

----------------------------------------------------------------------------
(* streamlit_proj/streamlit_app.py: the Get Panoramas page.  The page       *)
(* builds a command line from its settings, runs the provider script        *)
(* through run_script_realtime and shows what that returns.                 *)

Services == {"Google Street View", "Apple Look Around"}

\* "get_lookaround.py" if "Apple" in service else "get_streetview.py"
ProviderOf(s) == IF s = "Apple Look Around" THEN "lookaround" ELSE "streetview"

\* [sys.executable, script_path, str(lat), str(lon), str(num_panos),
\*  str(zoom_level)]; the selected coordinates are floats
DownloadCmd(s, lat, lon, n, z) ==
    <<ScriptOf(ProviderOf(s)), StrOfFloat(lat), StrOfFloat(lon), StrOfInt(n),
      StrOfInt(z)>>

\* a success_keywords argument: given is FALSE for None
NoKeywords == [given |-> FALSE, words |-> {}]

\* ["panorama(s)"].extend("Successfully processed".split()): list.extend
\* returns None
DownloadKeywords == NoKeywords

\* the keywords run_script_realtime looks for
SuccessKeywords(arg) ==
    IF arg.given THEN arg.words
    ELSE {"Successfully", "100%", "completed", "SUCCESS"}

\* the fixed wordings of the scripts' lines that contain the keyword
TokensWith(keyword) ==
    IF keyword = "Successfully"
    THEN {"Successfully processed:", "Successfully got pano:"}
    ELSE IF keyword = "panorama(s)"
    THEN {"panorama(s)", "panorama(s) failed to process."}
    ELSE {}

\* any(keyword in full_output for keyword in success_keywords) over the
\* lines of the merged pipe; no keyword spans two lines
HasSuccessKeywords(lines, keywords) ==
    \E i \in DOMAIN lines : \E j \in DOMAIN lines[i] : \E k \in keywords :
        lines[i][j] \in TokensWith(k)

\* success = process.returncode == 0 or has_success_keywords
Success(returncode, lines, arg) ==
    returncode = 0 \/ HasSuccessKeywords(lines, SuccessKeywords(arg))

\* the download button: the command is built and Popen starts the script;
\* an exception of Popen is returned as a failure with returncode -1
StartDownload ==
    /\ st_pc = "button"
    /\ \E started \in BOOLEAN :
          IF started
          THEN /\ argv' = DownloadCmd(service, 0, 0, st_num_panos, zoom_level)
               /\ pc' = "parse"
               /\ st_pc' = "running"
               /\ UNCHANGED result
          ELSE /\ result' = [success |-> FALSE, returncode |-> -1]
               /\ st_pc' = "done"
               /\ UNCHANGED <<argv, pc>>
    /\ UNCHANGED <<provider, scriptVars, webVars, perspVars, mosaicVars,
                   service, st_num_panos, zoom_level, grouped_views>>

\* run_script_realtime from the end of the pipe on: stderr is merged into
\* stdout, the loop has read every line, and the verdict is returned
RunScriptRealtime ==
    /\ st_pc = "running"
    /\ pc = "done"
    /\ result' = [success |-> Success(exit_code, stdout \o stderr,
                                      DownloadKeywords),
                  returncode |-> exit_code]
    /\ st_pc' = "done"
    /\ UNCHANGED <<provider, argv, pc, scriptVars, webVars, perspVars,
                   mosaicVars, service, st_num_panos, zoom_level,
                   grouped_views>>

InitPage ==
    /\ service \in Services
    /\ st_num_panos \in MinPanos..MaxNumPanos
    /\ zoom_level \in ZoomLevels
    /\ st_pc = "button"
    /\ result = NoResult
    /\ grouped_views = {}
    /\ provider = ProviderOf(service)
    /\ coverage = RelayWorld
    /\ Unspawned
    /\ Standalone
    /\ NoConversion
    /\ NoMosaic

\* get_streetview.py is given too few arguments by the page and ends in
\* argument parsing: of the scripts' statements only those of
\* get_lookaround.py go on from there
NextPage ==
    \/ StartDownload
    \/ ParseArgs
    \/ Locate
    \/ ExpandSearchWindow
    \/ FetchTile
    \/ CheckIndex
    \/ Select
    \/ StartPano
    \/ FetchFace
    \/ Assemble
    \/ Summary
    \/ RunScriptRealtime

SpecPage == InitPage /\ [][NextPage]_vars

----------------------------------------------------------------------------
(* streamlit_proj/streamlit_app.py: the viewer of the perspective files.    *)
(* to_perspective.py has written its files and show_perspective_results     *)
(* reads yaw and pitch back from their names.                               *)

\* s starts with pre
StartsWith(s, pre) == Len(pre) <= Len(s) /\ SubSeq(s, 1, Len(pre)) = pre

\* s.split(sep) for a separator of one or more characters: the pieces
\* between the occurrences of sep, found from the left without overlap
RECURSIVE SplitOn(_, _)
SplitOn(s, sep) ==
    LET hits == {i \in 1..Len(s) : StartsWith(SubSeq(s, i, Len(s)), sep)}
    IN  IF hits = {} THEN <<s>>
        ELSE LET i == CHOOSE h \in hits : \A g \in hits : h <= g
             IN  <<SubSeq(s, 1, i - 1)>>
                     \o SplitOn(SubSeq(s, i + Len(sep), Len(s)), sep)

RECURSIVE Join(_)
Join(pieces) == IF pieces = <<>> THEN <<>> ELSE Head(pieces) \o Join(Tail(pieces))

\* s.replace(sub, '')
Remove(s, sub) == Join(SplitOn(s, sub))

SplitMark == <<"_", "s", "p", "l", "i", "t", "_">>

\* a file the pattern does not fit: grouped under 'other' with yaw 0
OtherView(pf) == [file |-> pf, parsed |-> FALSE, yaw |-> 0, pitch |-> 0]

\* lines 558-570: parts = pf.split('_split_')[1].replace('.jpg', '')
\* .split('_'); yaw, pitch = int(parts[0]), int(parts[1]); an IndexError or
\* ValueError puts the file under 'other'
ParseView(pf) ==
    LET pieces == SplitOn(pf, SplitMark)
    IN  IF Len(pieces) < 2 THEN OtherView(pf)
        ELSE LET parts == SplitOn(Remove(pieces[2], Jpg), <<"_">>)
             IN  IF ~IsNumber(parts[1]) THEN OtherView(pf)
                 ELSE IF Len(parts) < 2 THEN OtherView(pf)
                 ELSE IF ~IsNumber(parts[2]) THEN OtherView(pf)
                 ELSE [file |-> pf, parsed |-> TRUE,
                       yaw |-> IntValue(parts[1]),
                       pitch |-> IntValue(parts[2])]

\* f.endswith('.jpg') and '_split_' in f
IsPerspectiveFile(f) ==
    /\ Len(f) >= Len(Jpg)
    /\ SubSeq(f, Len(f) - Len(Jpg) + 1, Len(f)) = Jpg
    /\ Len(SplitOn(f, SplitMark)) >= 2

\* show_perspective_results, lines 546-570: the files of the perspectives
\* directory are listed and parsed
ShowPerspectiveResults ==
    /\ st_pc = "split"
    /\ tp_pc = "done"
    /\ grouped_views' =
          { ParseView(Basename(tp_files[i])) :
                i \in {k \in DOMAIN tp_files :
                          IsPerspectiveFile(Basename(tp_files[k]))} }
    /\ st_pc' = "shown"
    /\ UNCHANGED <<provider, argv, pc, scriptVars, webVars, perspVars,
                   mosaicVars, service, st_num_panos, zoom_level, result>>

\* names of panoramas: those the provider scripts write and two a user gave
\* to files of their own
SourcePaths ==
    PanoramaPaths
        \cup { PathJoin(OutToken, <<"a">> \o SplitMark \o <<"b">> \o Jpg),
               PathJoin(OutToken, <<"x", "_", "s", "p", "l", "i", "t">> \o Jpg) }

InitViewer ==
    /\ NoPipeline
    /\ NoMosaic
    /\ st_pc = "split" /\ service = "" /\ st_num_panos = 0 /\ zoom_level = 0
    /\ result = NoResult
    /\ grouped_views = {}
    /\ tp_argv \in {<<"to_perspective.py", path, OutToken>> : path \in SourcePaths}
    /\ pano_file \in PanoFiles
    /\ tp_pc = "main" /\ tp_exit = 0
    /\ file_name = <<>> /\ tp_out_dir = <<>>
    /\ tasks = <<>> /\ task_idx = 0 /\ success_count = 0
    /\ attempts = <<>> /\ tp_files = <<>>

NextViewer ==
    \/ Main
    \/ OpenPanorama
    \/ Sample
    \/ Finish
    \/ ShowPerspectiveResults

SpecViewer == InitViewer /\ [][NextViewer]_vars

----------------------------------------------------------------------------
(* Properties *)

RecordsOf(s) == {s[i] : i \in DOMAIN s}

\* the run has printed its summary
ReachedSummary == pc = "done" /\ exit_at = "summary"

\* the run is past the index check
PastIndex == pc \in {"select", "pano", "faces", "assemble", "summary"} \/ ReachedSummary

\* panoramas of the run that were not saved
NotSaved == {i \in DOMAIN outcomes : outcomes[i] # "saved"}

\* C1: in both provider scripts a run that reaches the summary has
\* succeeded + failed equal to the number of selected panoramas, which is
\* min(requested count, records found), whatever happened to each panorama.
C1_CountsAddUp ==
    ReachedSummary =>
        /\ Len(selected_panos) = Min(num_panos, Len(all_panos))
        /\ successful_downloads + failed_downloads = Len(selected_panos)

\* C2: a run that passed validation, found coverage and a non-empty index
\* ends at the summary, and its exit status is zero exactly when at least one
\* panorama succeeded.
C2_ExitZeroIffSucceeded ==
    (pc = "done" /\ selected_panos # <<>>) =>
        /\ exit_at = "summary"
        /\ (exit_code = 0 <=> successful_downloads >= 1)
        /\ exit_code \in {0, 1}

\* C2 witness: a finished run with successes and failures that exits zero
C2_Witness ==
    /\ ReachedSummary
    /\ successful_downloads > 0
    /\ failed_downloads > 0
    /\ exit_code = 0

\* C3: the merged list handed to the selector holds one record per panorama
\* id, and no panorama id is written twice in one run.
C3_OneRecordPerId ==
    (provider = "lookaround" /\ PastIndex) =>
        /\ \A i, j \in DOMAIN all_panos :
              all_panos[i].id = all_panos[j].id => i = j
        /\ \A i, j \in DOMAIN files : files[i].id = files[j].id => i = j

PlaceOf(p) == CHOOSE i \in DOMAIN all_panos : all_panos[i] = p

C6_SquareWindow ==
    (provider = "lookaround" /\ pc = "tiles" /\ tiles_todo = tile_coords_to_check) =>
        LET r == search_radius
            cx == initial_tile.x
            cy == initial_tile.y
        IN  /\ num_panos \in MinPanos..MaxPanos
            /\ r >= 1
            /\ 4 * r * r >= num_panos
            /\ 4 * (r - 1) * (r - 1) < num_panos
            /\ <<cx, cy>> \in tile_coords_to_check
            /\ Cardinality(tile_coords_to_check) = (2 * r + 1) * (2 * r + 1)
            /\ \A t \in tile_coords_to_check :
                  /\ t[1] \in (cx - r)..(cx + r)
                  /\ t[2] \in (cy - r)..(cy + r)
            /\ \A x \in (cx - r)..(cx + r), y \in (cy - r)..(cy + r) :
                  <<x, y>> \in tile_coords_to_check

\* C6 witness: the largest accepted count gives radius 12 and 625 tiles
C6_Witness ==
    /\ pc = "tiles"
    /\ num_panos = MaxPanos
    /\ search_radius = 12
    /\ Cardinality(tile_coords_to_check) = 625

\* C7: once the loop has started no failure of one panorama ends the run:
\* the run ends at the summary with every selected panorama processed and
\* every panorama that was not saved counted once in failed.
C7_EveryFailureCounted ==
    (pc = "done" /\ selected_panos # <<>>) =>
        /\ exit_at = "summary"
        /\ pano_idx = Len(selected_panos)
        /\ Len(outcomes) = Len(selected_panos)
        /\ failed_downloads = Cardinality(NotSaved)

AllFaces == [i \in 1..NumFaces |-> i - 1]

\* C8: get_lookaround.py writes a file for a panorama only from the six
\* faces 0..5, all fetched and decoded; with fewer faces it writes nothing
\* and counts the panorama as failed.
C8_FileNeedsSixFaces ==
    [][ provider = "lookaround" =>
          /\ files' # files =>
                /\ pc = "assemble"
                /\ faces = AllFaces
                /\ face_download_success
                /\ Len(files') = Len(files) + 1
                /\ files'[Len(files')].id = selected_panos[pano_idx + 1].id
          /\ (pc = "assemble" /\ Len(faces) < NumFaces) =>
                /\ files' = files
                /\ failed_downloads' = failed_downloads + 1
                /\ successful_downloads' = successful_downloads ]_vars

\* C8 witness: a panorama saved from six faces, then one skipped with three
C8_Witness ==
    /\ provider = "lookaround"
    /\ outcomes = <<"saved", "faces_missing">>
    /\ Len(files) = 1
    /\ Len(faces) = 3
    /\ failed_downloads = 1

\* C9: the faces of a panorama are fetched in the order 0, 1, ..., 5, no face
\* is fetched after a failed face of the same panorama, and the next
\* panorama starts again at face 0.
C9_FacesInOrderUntilFailure ==
    [][ pc = "faces" =>
          /\ last_fetch'.pano = pano_idx + 1
          /\ last_fetch'.face \in 0..(NumFaces - 1)
          /\ IF last_fetch.pano = pano_idx + 1
             THEN /\ last_fetch.ok
                  /\ last_fetch'.face = last_fetch.face + 1
             ELSE /\ last_fetch.pano = pano_idx
                  /\ last_fetch'.face = 0 ]_vars

\* C9 witness: a face of the first panorama failed, the panorama was skipped,
\* and the latest fetch is face 0 of the second panorama
C9_Witness ==
    /\ outcomes = <<"faces_missing">>
    /\ faces = <<0>>
    /\ last_fetch = [pano |-> 2, face |-> 0, ok |-> TRUE]
    /\ successful_downloads = 0

\* C10: every tile of the search window is fetched exactly once whichever
\* fetches fail; the merged index holds every record of every tile fetched
\* successfully, each once, and nothing of a tile whose fetch failed.
C10_EveryTileFetchedOnce ==
    /\ \A t \in DOMAIN tile_fetches :
          tile_fetches[t] = (IF t \in tiles_todo THEN 0 ELSE 1)
    /\ tiles_failed \subseteq tile_coords_to_check \ tiles_todo
    /\ (provider = "lookaround" /\ (pc = "check_index" \/ PastIndex)) =>
          /\ tiles_todo = {}
          /\ DOMAIN tile_fetches = tile_coords_to_check
          /\ RecordsOf(all_panos)
                = UNION { RecordsOf(TilePanos(t)) :
                            t \in tile_coords_to_check \ tiles_failed }
          /\ \A i, j \in DOMAIN all_panos : all_panos[i] = all_panos[j] => i = j

\* C10 witness: two fetches failed, one of a tile that holds records, and the
\* records of the other tile are in the index
C10_Witness ==
    /\ pc = "check_index"
    /\ tiles_failed = {NeighbourTile, CornerTile}
    /\ TilePanos(NeighbourTile) # <<>>
    /\ all_panos # <<>>

\* the statements that end a run before the coverage lookup
ParseExits == {"usage", "value_error", "index_error", "count_range"}

\* no index fetch, no face or panorama fetch, no file
NothingFetched ==
    /\ \A t \in DOMAIN tile_fetches : tile_fetches[t] = 0
    /\ all_panos = <<>>
    /\ last_fetch = NoFetch
    /\ outcomes = <<>>
    /\ files = <<>>

\* C11: when the provider has no coverage tile for the target the run ends
\* with a nonzero exit status, having fetched no tile index, no face and no
\* panorama and written no file.
C11_NoCoverageEndsRun ==
    (initial_tile = NoTile /\ pc \notin {"parse", "locate"}) =>
        /\ pc = "done"
        /\ exit_code # 0
        /\ NothingFetched

\* C11 witness: get_lookaround.py is told there is no tile at a target whose
\* neighbourhood holds panoramas
C11_Witness ==
    /\ provider = "lookaround"
    /\ exit_at = "no_coverage"
    /\ exit_code = 1
    /\ coverage[CenterTile] # <<>>
    /\ NothingFetched

C14_PositionalOrder ==
    (pc # "parse" /\ Len(argv) = 6) =>
        /\ exit_at \notin {"usage", "value_error", "index_error"}
        /\ out_dir = SysArgv(argv, 3)
        /\ num_panos = IntValue(SysArgv(argv, 4))
        /\ zoom = IntValue(SysArgv(argv, 5))

\* C15: every equirectangular image a provider script writes is named
\* {panoramaId}_{zoom}.jpg and lies in the output directory of the run.
C15_FileNames ==
    \A i \in DOMAIN files :
        /\ files[i].name = StrOfInt(files[i].id) \o <<"_">> \o StrOfInt(zoom)
                              \o <<".", "j", "p", "g">>
        /\ files[i].dir = out_dir
        /\ \E k \in DOMAIN selected_panos : selected_panos[k].id = files[i].id

\* the count a request asks for, when its parameters convert
RequestCount == IntValue(ReadRequest(request).num_panos)

RequestConverts ==
    LET a == ReadRequest(request)
    IN  /\ IsFloat(a.lat) /\ IsFloat(a.lon)
        /\ IsNumber(a.num_panos) /\ IsNumber(a.zoom)

\* the count on the command line of a script, in the layout the script reads
CommandLineCount ==
    IntValue(SysArgv(argv, IF provider = "lookaround" THEN 3 ELSE 4))

SamplesDone == tp_pc = "done" /\ tasks # <<>>

\* the 24 (yaw, pitch) pairs of the default configuration
DefaultSamples ==
    { <<yaw, pitch>> : yaw \in {45 * i : i \in 0..7}, pitch \in {0 - 30, 0, 30} }

C17_EverySampleAttempted ==
    /\ success_count = Len(attempts) - Failures(attempts)
    /\ success_count = Len(tp_files)
    /\ Len(attempts) = task_idx
    /\ \A k \in DOMAIN attempts :
          <<attempts[k].v_deg, attempts[k].u_deg>>
              = <<tasks[k].pitch, tasks[k].yaw>>
    /\ SamplesDone => Len(attempts) = Len(tasks)

\* C17 witness: the first sample failed, a later one too, and the last
\* sample was still rendered and counted
C17_Witness ==
    /\ SamplesDone
    /\ Failures(attempts) = 2
    /\ ~attempts[1].ok
    /\ attempts[Len(tasks)].ok
    /\ success_count = Len(tasks) - 2

\* get_all_tiles is over, by return or by an exception
TilesOver == grid_pc \in {"stitch", "done", "crashed"} /\ grid_zoom >= 1

\* C18: get_all_tiles requests every cell of the grid exactly once whatever
\* requests fail, and a failed request (transport error, HTTP error status,
\* empty body) leaves no tile file for its cell.
C18_EveryCellFetchedOnce ==
    /\ \A c \in DOMAIN requests_made :
          /\ requests_made[c] <= 1
          /\ tile_files[c] \in {"none", "image"}
    /\ TilesOver => \A c \in DOMAIN requests_made : requests_made[c] = 1

\* C19: for every set of missing or unreadable tiles stitch_tiles produces
\* an image of 512 * x_tiles by 512 * y_tiles pixels with each loaded tile at
\* (512 * x, 512 * y) and every other cell black.
C19_AlwaysStitched ==
    grid_pc = "done" =>
        /\ stitched.made
        /\ stitched.size = <<512 * x_tiles.num, 512 * y_tiles.num>>
        /\ stitched.pasted =
              {[cell |-> c, at |-> <<512 * c[1], 512 * c[2]>>] : c \in Loaded}

\* the saved_image events yielded so far, in order
SavedEvents == SelectSeq(events.stdout, LAMBDA e : e.type = "saved_image")

\* the names of the files written so far, in order
FileNames == [k \in DOMAIN files |-> files[k].name]

IsPrefix(s, t) == Len(s) <= Len(t) /\ s = SubSeq(t, 1, Len(s))

\* C20: the files saved during a run follow the order of the selector's
\* ranked sequence (ascending distance to the target), and the saved_image
\* events, saved_filenames and the image_paths of the closing event list
\* those files in the same order.
C20_OrderKept ==
    /\ \A j, k \in DOMAIN selected_panos :
          j < k => Key(selected_panos[j], target_lat, target_lon)
                      <= Key(selected_panos[k], target_lat, target_lon)
    /\ \A j, k \in DOMAIN files :
          j < k => \E a, b \in DOMAIN selected_panos :
                      /\ a < b
                      /\ selected_panos[a].inst = files[j].inst
                      /\ selected_panos[b].inst = files[k].inst
    /\ IsPrefix([k \in DOMAIN SavedEvents |-> SavedEvents[k].path], FileNames)
    /\ saved_filenames = [k \in DOMAIN SavedEvents |-> SavedEvents[k].path]
    /\ \A i \in DOMAIN events.own :
          events.own[i].type = "script_end" /\ events.own[i].status = "success"
              => /\ events.own[i].image_paths = saved_filenames
                 /\ IsPrefix(events.own[i].image_paths, FileNames)

\* C20 witness: two panoramas were saved, the nearer one first although the
\* provider lists it second, and both were relayed before the closing event
C20_Witness ==
    /\ web_pc = "closed"
    /\ Len(files) = 2
    /\ files[1].id = 2 /\ files[2].id = 3
    /\ all_panos[1].id = 3
    /\ Len(SavedEvents) = 2
    /\ events.own = <<[Event("script_end") EXCEPT
                          !.status = "success",
                          !.image_paths = FileNames,
                          !.total_images = 2]>>

----------------------------------------------------------------------------
\* C21: whenever the provider script run by the Get Panoramas page finishes
\* with zero successfully processed panoramas, run_script_realtime returns
\* success = False.
C21_ZeroSavedReportsFailure ==
    (st_pc = "done" /\ pc = "done" /\ successful_downloads = 0)
        => ~result.success

----------------------------------------------------------------------------
\* C22: whatever the argument vector, a provider script either passes
\* argument parsing or ends with a nonzero status after printing its own
\* usage or error message; no missing or malformed positional argument ends
\* the run as an uncaught exception.
C22_ParseFailuresAreReported ==
    (pc = "done" /\ exit_at \in ParseExits)
        => /\ exit_code # 0
           /\ Traceback \notin RecordsOf(stderr)
           /\ \E outcome \in ParseExits \ {"index_error"} :
                  ParseMessage(outcome) \in RecordsOf(stdout)

----------------------------------------------------------------------------
\* the closing event of a relayed run
ScriptEnded ==
    \E i \in DOMAIN events.own : events.own[i].type = "script_end"

\* the lines an endpoint has passed on from one pipe, in order
Relayed(evs) ==
    [i \in DOMAIN evs |-> evs[i].message]

\* C23: in the relay, under every interleaving of the script, the two reader
\* threads and the polling loop, every line the script wrote to stdout or
\* stderr has been emitted as an event when script_end is emitted.
C23_EveryLineRelayed ==
    ScriptEnded
        => /\ Len(events.stdout) = Len(stdout)
           /\ Len(events.stderr) = Len(stderr)
           /\ Relayed(events.stderr) = stderr

----------------------------------------------------------------------------
\* the terminal events of the stream so far
TerminalEvents ==
    SelectSeq(events.own, LAMBDA e : e.type \in {"script_end", "app_error"})

\* C24: a relay stream ends with exactly one terminal event (script_end or
\* app_error); script_end has status "success" exactly when the return code
\* is 0, and on success image_paths lists, in order, the filenames of the
\* saved_image events and total_images is the number of panoramas the script
\* reported as saved.
C24_OneTerminalEvent ==
    /\ Len(TerminalEvents) <= 1
    /\ (web_pc = "closed" /\ argv # <<>>)
          => /\ Len(TerminalEvents) = 1
             /\ events.own[Len(events.own)] = TerminalEvents[1]
    /\ \A i \in DOMAIN events.own :
          events.own[i].type = "script_end"
              => /\ events.own[i].status = "success" <=> exit_code = 0
                 /\ events.own[i].status = "success"
                       => /\ events.own[i].image_paths
                                = [k \in DOMAIN SavedEvents |-> SavedEvents[k].path]
                          /\ events.own[i].total_images = successful_downloads

----------------------------------------------------------------------------
\* C25: the script spawned by the download button reads its arguments as
\* the caller meant them: it gets through argument parsing, the count it
\* validates and uses is the caller's num_panos and its zoom is the zoom
\* level the caller asked for.
C25_ArgumentsAsMeant ==
    (st_pc # "idle" /\ pc \notin {"unspawned", "parse"})
        => /\ exit_at \notin ParseExits
           /\ num_panos = st_num_panos
           /\ zoom = zoom_level

----------------------------------------------------------------------------
\* C26: run the way split_panoramas_to_perspective runs it, with the
\* panorama path as the only argument, to_perspective.py runs
\* pano_to_perspective on the file and exits zero when the file exists and
\* is readable.
C26_SplitRunsConversion ==
    (\E path \in PanoramaPaths : tp_argv = SplitCmd(path)
        /\ pano_file = "image" /\ tp_pc = "done")
        => /\ tp_exit = 0
           /\ Len(attempts) = Len(Tasks(PitchVals, YawVals(NumPics)))

----------------------------------------------------------------------------
----------------------------------------------------------------------------
\* C28: for every source name and every (yaw, pitch) of the sampling grid,
\* negative pitch included, parsing the name generate_and_save wrote the way
\* the viewer does recovers the yaw and pitch the image was rendered at.
C28_NameRoundTrip ==
    st_pc = "shown"
        => \A i \in DOMAIN attempts :
              attempts[i].ok
                  => [file |-> Basename(attempts[i].out_file_name),
                      parsed |-> TRUE,
                      yaw |-> attempts[i].u_deg,
                      pitch |-> attempts[i].v_deg] \in grouped_views

----------------------------------------------------------------------------
\* C29: for every zoom level, get_tile_grid_size returns positive integer
\* tile counts (x_tiles, y_tiles) = (2^zoom, 2^(zoom-1)) with
\* x_tiles = 2 * y_tiles, so that the tile loops cover the whole grid.
C29_GridSize ==
    grid_pc \notin {"idle", "start"}
        => /\ x_tiles.den = 1 /\ y_tiles.den = 1
           /\ x_tiles.num > 0 /\ y_tiles.num > 0
           /\ x_tiles.num = IntPower(2, grid_zoom)
           /\ 2 * y_tiles.num = x_tiles.num
           /\ grid_pc # "crashed" => DOMAIN requests_made
                                        = Cells(x_tiles.num, y_tiles.num)

----------------------------------------------------------------------------
\* C30: when the script exits and the threads are scheduled fairly, the
\* polling loop of the relay ends, with the process finished and both queues
\* found empty, and a terminal event is emitted; the loop does not go round
\* forever.
C30_RelayTerminates ==
    (web_pc = "poll")
        ~> (web_pc = "closed" /\ pc = "done" /\ Len(TerminalEvents) = 1)

\* C30 witness: the stream was closed by script_end after lines of both pipes
\* had been queued and passed on
C30_Witness ==
    /\ web_pc = "closed"
    /\ ScriptEnded
    /\ Len(events.stdout) >= 1
    /\ Len(events.stderr) >= 2

====
